---- MODULE Spec2Model ----
(***************************************************************************)
(* Agent-based spread models of the Mesa-Laboratories repository:          *)
(*   homework      infectious disease model (InfectiousDiseaseSpreadModel) *)
(*   laboratory_2  trend model with counters and random influencers        *)
(*   laboratory1   first trend model (MultiGrid)                           *)
(* One step call of a model is a sequence of behaviour calls; pc and idx   *)
(* hold the position of the step call in progress.  Probabilities and      *)
(* random draws are in hundredths: random() < 0.25 is d < 25.              *)
(***************************************************************************)
EXTENDS Integers, Sequences, FiniteSets, TLC

\* ------------------------------------------------------------ bounds
\* the grid is GridWidth x GridHeight cells, wrapped
GridWidth == 2
\* ticks a model executes
MaxTicks == 4
\* interaction attempts after which laboratory_2 starts no further tick
MaxInteractions == 2

\* ------------------------------------------------- model parameters
GridHeight == 2
\* (population_size, infected_population_size, comorbidities_population_size)
hw_Populations == { <<2, 1, 0>>, <<2, 1, 1>>, <<3, 2, 1>>, <<2, 2, 1>> }
\* (population_size, influencer_group_size) of the trend models
trend_Populations == { <<1, 1>>, <<2, 1>>, <<2, 2>> }

\* ------------------------------------------------- program constants
VirusPersistenceLimit == 2
ComorbidityRisk == 25
InfectedCellRisk == 50
NeighbourhoodRisk == 25
DirectRiskComorbid == 75
DirectRisk == 50
DefaultMovingProbability == 50
DefaultGossipProb == 50
lab2_skepticism_prob == 20
lab2_influencer_reach == 50
lab1_skepticism_prob == 20

\* representatives of random.random() in [0, 1), in hundredths
Draws == {0, 20, 25, 50, 75, 99}

\* agent.cell is None before placement
None == << >>

VARIABLES
    variant,                 \* which model class was constructed
    running,                 \* Model.running
    pc,                      \* the behaviour call the step in progress makes next
    idx,                     \* position of AgentSet.do in the set it walks
    ticks,                   \* ticks executed so far
    calls,                   \* behaviour calls made by the latest executed tick, each
                             \* with its agent (the decay loop: with the cells it cleared)
    drawn,                   \* values the latest call took from self.random
    targeted,                \* (call, caller, agent) of every transmission attempt and
                             \* delivery of the latest executed tick, in order
    raised,                  \* a ValueError left step
    cell,                    \* agent.cell (agent.pos in laboratory1)
    population_size,         \* model.population_size
    infected_population_size,       \* model.infected_population_size
    comorbidities_population_size,  \* model.comorbidities_population_size
    \* homework
    is_infected,             \* PersonAgent._is_infected
    has_comorbidities,       \* PersonAgent._has_comorbidities
    moving_probability,      \* model.moving_probability
    direct_infections,       \* model.direct_infections
    location_infections,     \* model.location_infections
    cell_is_infected,        \* cell.properties["is_infected"]
    virus_persistence,       \* cell.properties["virus_persistence"]
    infected_property_layer, \* infected_property_layer.data
    model_vars,              \* datacollector rows, one per collect
    \* laboratory_2 and laboratory1
    knows_about_trend,       \* PersonAgent._knows_about_trend
    sport_enthusiast,        \* PersonAgent.sport_enthusiast
    gossip_prob,             \* PersonAgent._gossip_prob
    influencer_group_size,   \* model.influencer_group_size
    direct_interactions_count,
    indirect_interactions_count,
    successful_direct_interactions_count,
    successful_indirect_interactions_count,
    followers,               \* the AgentSet handed to the influencers
    movers                   \* the AgentSet that moves again

\* set at construction, never assigned by step
fixed == <<variant, population_size, infected_population_size,
           comorbidities_population_size, has_comorbidities, moving_probability,
           sport_enthusiast, gossip_prob, influencer_group_size>>

hw_state == <<is_infected, direct_infections, location_infections, cell_is_infected,
              virus_persistence, infected_property_layer, model_vars>>

counters == <<direct_interactions_count, indirect_interactions_count,
              successful_direct_interactions_count,
              successful_indirect_interactions_count>>

trend_state == <<knows_about_trend, counters, followers, movers>>

vars == <<running, ticks, pc, idx, calls, drawn, targeted, raised, cell, fixed, hw_state, trend_state>>

\* ------------------------------------------------------------- grid
Cells == (0 .. GridWidth - 1) \X (0 .. GridHeight - 1)

\* the neighbourhood with the diagonal cells, as of a Moore grid
Neighborhood_with_diagonals(c) ==
    { <<(c[1] + dx) % GridWidth, (c[2] + dy) % GridHeight>> :
          dx \in {0, 1, GridWidth - 1}, dy \in {0, 1, GridHeight - 1} }
    \ {c}

\* OrthogonalVonNeumannGrid(dimensions, torus=True): the four wrapped
\* neighbours, as a set, without the cell itself
Neighborhood(c) ==
    { <<(c[1] + 1) % GridWidth, c[2]>>, <<(c[1] + GridWidth - 1) % GridWidth, c[2]>>,
      <<c[1], (c[2] + 1) % GridHeight>>, <<c[1], (c[2] + GridHeight - 1) % GridHeight>> }
    \ {c}

Max(a, b) == IF a > b THEN a ELSE b

\* the PersonAgent population, in creation order
PersonAgents == DOMAIN cell

\* every other agent of the model, whatever its cell
encountered_agents_everywhere(a) ==
    SelectSeq([i \in 1 .. Len(cell) |-> i], LAMBDA b : b # a)

\* a list of the cell that holds each of its agents twice
encountered_agents_listed_twice(a) ==
    SelectSeq([i \in 1 .. 2 * Len(cell) |-> ((i - 1) % Len(cell)) + 1],
              LAMBDA b : b # a /\ cell[b] = cell[a])

\* cell.agents without the caller, as a sequence
encountered_agents(a) ==
    SelectSeq([i \in 1 .. Len(cell) |-> i], LAMBDA b : b # a /\ cell[b] = cell[a])

\* every agent running its next call right after its own earlier one
Advance_agent_by_agent(next_pc) == pc' = next_pc /\ idx' = idx

\* AgentSet.do: after the call of agent idx, the next agent or the next phase
Advance(next_pc) ==
    IF idx < Len(cell) THEN pc' = pc /\ idx' = idx + 1
    ELSE pc' = next_pc /\ idx' = 1

\* the ValueError caught by the phase, the tick going on with the next phase
Raise_caught ==
    /\ raised' = TRUE
    /\ pc' = (IF pc # "move_around" THEN "idle"
              ELSE IF variant = "homework" THEN "spread_virus" ELSE "spread_news")
    /\ idx' = 1
    /\ calls' = Append(calls, <<pc, idx>>)
    /\ drawn' = 0 /\ UNCHANGED targeted

\* check_grid_initialization raises: the ValueError leaves step
Raise ==
    /\ raised' = TRUE
    /\ pc' = "idle"
    /\ idx' = 1
    /\ calls' = Append(calls, <<pc, idx>>)
    /\ drawn' = 0 /\ UNCHANGED targeted

\* ------------------------------------------------ homework: construction
\* generate_person_agents: three create_agents calls (a negative count creates none)
hw_generate_is_infected(P, I, C) ==
    [i \in 1 .. (I + C + Max(P - I - C, 0)) |-> i <= I]

hw_generate_has_comorbidities(P, I, C) ==
    [i \in 1 .. (I + C + Max(P - I - C, 0)) |-> i > I /\ i <= I + C]

\* place_agents_on_grid drawing its coordinates before the population_size
\* of the trend models counts the agent that knows the trend
place_agents_on_grid_one_short(n, P, xy) ==
    [i \in 1 .. n |-> IF i <= P - 1 THEN xy[i] ELSE None]

\* place_agents_on_grid: zip stops after population_size coordinates
place_agents_on_grid(n, P, xy) ==
    [i \in 1 .. n |-> IF i <= P THEN xy[i] ELSE None]

\* Model.__init__ and the fields of the models not constructed
InitControl ==
    /\ running = TRUE
    /\ ticks = 0
    /\ pc = "idle"
    /\ idx = 1
    /\ calls = << >>
    /\ drawn = 0
    /\ targeted = << >>
    /\ raised = FALSE

NoHomework ==
    /\ infected_population_size = 0
    /\ comorbidities_population_size = 0
    /\ is_infected = << >>
    /\ has_comorbidities = << >>
    /\ moving_probability = 0
    /\ direct_infections = 0
    /\ location_infections = 0
    /\ cell_is_infected = << >>
    /\ virus_persistence = << >>
    /\ infected_property_layer = << >>
    /\ model_vars = << >>

NoTrend ==
    /\ knows_about_trend = << >>
    /\ sport_enthusiast = << >>
    /\ gossip_prob = 0
    /\ influencer_group_size = 0
    /\ direct_interactions_count = 0
    /\ indirect_interactions_count = 0
    /\ successful_direct_interactions_count = 0
    /\ successful_indirect_interactions_count = 0
    /\ followers = << >>
    /\ movers = << >>

\* InfectiousDiseaseSpreadModel.__init__
hw_construct(P, I, C) ==
    /\ variant = "homework"
    /\ population_size = P
    /\ infected_population_size = I
    /\ comorbidities_population_size = C
    /\ is_infected = hw_generate_is_infected(P, I, C)
    /\ has_comorbidities = hw_generate_has_comorbidities(P, I, C)
    /\ \E xy \in [1 .. P -> Cells] :
          cell = place_agents_on_grid(I + C + Max(P - I - C, 0), P, xy)
    /\ moving_probability = DefaultMovingProbability
    /\ direct_infections = 0
    /\ location_infections = 0
    /\ cell_is_infected = [c \in Cells |-> FALSE]
    /\ virus_persistence = [c \in Cells |-> 0]
    /\ infected_property_layer = [c \in Cells |-> FALSE]
    /\ model_vars = << <<0, 0>> >>
    /\ InitControl
    /\ NoTrend

hw_Init == \E p \in hw_Populations : hw_construct(p[1], p[2], p[3])

\* ------------------------------------------------ homework: behaviour
\* _get_infected incrementing both counters
hw_get_infected_counts_both(s, a, is_direct) ==
    [s EXCEPT !.is_infected[a] = TRUE,
              !.direct_infections = @ + 1,
              !.location_infections = @ + 1]

\* _get_infected on a record of the fields a loop changes
hw_get_infected(s, a, is_direct) ==
    [s EXCEPT !.is_infected[a] = TRUE,
              !.direct_infections = IF is_direct THEN @ + 1 ELSE @,
              !.location_infections = IF is_direct THEN @ ELSE @ + 1]

\* _in_neighbourhood_of_infection
hw_in_neighbourhood_of_infection(a) ==
    \E c \in Neighborhood(cell[a]) : cell_is_infected[c]

\* _get_infection_probabilty with "if" in place of "elif": both location
\* contributions on a contaminated cell that has a contaminated neighbour
hw_get_infection_probabilty_adds_both(a) ==
    LET infection_probability == IF has_comorbidities[a] THEN ComorbidityRisk ELSE 0
    IN  IF cell_is_infected[cell[a]]
        THEN infection_probability + InfectedCellRisk
             + (IF hw_in_neighbourhood_of_infection(a) THEN NeighbourhoodRisk ELSE 0)
        ELSE IF hw_in_neighbourhood_of_infection(a)
             THEN infection_probability + NeighbourhoodRisk
             ELSE 0

\* _get_infection_probabilty without the test of the neighbouring cells
hw_get_infection_probabilty_anywhere(a) ==
    LET infection_probability == IF has_comorbidities[a] THEN ComorbidityRisk ELSE 0
    IN  IF cell_is_infected[cell[a]] THEN infection_probability + InfectedCellRisk
        ELSE infection_probability + NeighbourhoodRisk

\* _get_infection_probabilty
hw_get_infection_probabilty(a) ==
    LET infection_probability == IF has_comorbidities[a] THEN ComorbidityRisk ELSE 0
    IN  IF cell_is_infected[cell[a]] THEN infection_probability + InfectedCellRisk
        ELSE IF hw_in_neighbourhood_of_infection(a)
             THEN infection_probability + NeighbourhoodRisk
             ELSE 0

\* infection_probability of spread_virus for one encountered agent
hw_direct_probability(agent) ==
    IF has_comorbidities[agent] THEN DirectRiskComorbid ELSE DirectRisk

\* the loop of spread_virus without its test of agent.is_infected
RECURSIVE hw_infect_encountered_again(_, _)
hw_infect_encountered_again(targets, s) ==
    IF targets = << >> THEN {s}
    ELSE LET agent == Head(targets)
             after ==
                 { IF d < hw_direct_probability(agent)
                   THEN [hw_get_infected(s, agent, TRUE)
                            EXCEPT !.drawn = @ + 1, !.reached = Append(@, agent)]
                   ELSE [s EXCEPT !.drawn = @ + 1, !.reached = Append(@, agent)]
                   : d \in Draws }
         IN  UNION { hw_infect_encountered_again(Tail(targets), t) : t \in after }

\* the loop of spread_virus over encountered_agents: every outcome of its draws
RECURSIVE hw_infect_encountered(_, _)
hw_infect_encountered(targets, s) ==
    IF targets = << >> THEN {s}
    ELSE LET agent == Head(targets)
             after ==
                 IF s.is_infected[agent] THEN {s}
                 ELSE { IF d < hw_direct_probability(agent)
                        THEN [hw_get_infected(s, agent, TRUE)
                                 EXCEPT !.drawn = @ + 1, !.reached = Append(@, agent)]
                        ELSE [s EXCEPT !.drawn = @ + 1, !.reached = Append(@, agent)]
                        : d \in Draws }
         IN  UNION { hw_infect_encountered(Tail(targets), t) : t \in after }

hw_fields ==
    [is_infected |-> is_infected, direct_infections |-> direct_infections,
     location_infections |-> location_infections, drawn |-> 0, reached |-> << >>]

hw_set_fields(s) ==
    /\ is_infected' = s.is_infected
    /\ direct_infections' = s.direct_infections
    /\ location_infections' = s.location_infections
    /\ drawn' = s.drawn
    /\ targeted' = targeted \o [i \in 1 .. Len(s.reached) |-> <<pc, idx, s.reached[i]>>]

\* the guard comparing the number of infected agents with zero
hw_some_infected == \E a \in PersonAgents : is_infected[a]

\* the guard of _stop_condition.perform_step
hw_all_infected == \A a \in PersonAgents : is_infected[a]

\* step collecting before the guard of perform_step
hw_step_collects_first ==
    /\ variant = "homework"
    /\ pc = "idle"
    /\ model_vars' = Append(model_vars, <<direct_infections, location_infections>>)
    /\ IF hw_all_infected
       THEN /\ running' = FALSE
            /\ UNCHANGED <<ticks, pc, idx, calls, drawn, targeted>>
       ELSE /\ ticks < MaxTicks
            /\ ticks' = ticks + 1
            /\ pc' = "move_around"
            /\ idx' = 1
            /\ calls' = << >>
            /\ drawn' = 0
            /\ targeted' = << >>
            /\ UNCHANGED running
    /\ UNCHANGED <<raised, cell, fixed, is_infected, direct_infections,
                   location_infections, cell_is_infected, virus_persistence,
                   infected_property_layer, trend_state>>

\* the decorated step: perform_step, then datacollector.collect
hw_step ==
    /\ variant = "homework"
    /\ pc = "idle"
    /\ IF hw_all_infected
       THEN /\ running' = FALSE
            /\ UNCHANGED <<ticks, pc, idx, calls, drawn, targeted, model_vars>>
       ELSE /\ ticks < MaxTicks
            /\ ticks' = ticks + 1
            /\ model_vars' = Append(model_vars, <<direct_infections, location_infections>>)
            /\ pc' = "move_around"
            /\ idx' = 1
            /\ calls' = << >>
            /\ drawn' = 0
            /\ targeted' = << >>
            /\ UNCHANGED running
    /\ UNCHANGED <<raised, cell, fixed, is_infected, direct_infections,
                   location_infections, cell_is_infected, virus_persistence,
                   infected_property_layer, trend_state>>

\* move_around marking the agent that moves as having comorbidities
hw_move_around_changes_trait ==
    /\ variant = "homework"
    /\ pc = "move_around"
    /\ IF cell[idx] = None
       THEN Raise /\ UNCHANGED <<cell, has_comorbidities>>
       ELSE /\ \E d \in Draws :
                IF d < moving_probability
                THEN \E c \in Neighborhood(cell[idx]) :
                        /\ cell' = [cell EXCEPT ![idx] = c]
                        /\ has_comorbidities' = [has_comorbidities EXCEPT ![idx] = TRUE]
                        /\ drawn' = 2 /\ UNCHANGED targeted
                ELSE /\ UNCHANGED <<cell, has_comorbidities>>
                     /\ drawn' = 1 /\ UNCHANGED targeted
            /\ calls' = Append(calls, <<pc, idx>>)
            /\ Advance("spread_virus")
            /\ UNCHANGED raised
    /\ UNCHANGED <<running, ticks, variant, population_size, infected_population_size,
                   comorbidities_population_size, moving_probability, sport_enthusiast,
                   gossip_prob, influencer_group_size, hw_state, trend_state>>

hw_move_around ==
    /\ variant = "homework"
    /\ pc = "move_around"
    /\ IF cell[idx] = None
       THEN Raise /\ UNCHANGED cell
       ELSE /\ \E d \in Draws :
                IF d < moving_probability
                THEN \E c \in Neighborhood(cell[idx]) :
                        cell' = [cell EXCEPT ![idx] = c] /\ drawn' = 2 /\ UNCHANGED targeted
                ELSE cell' = cell /\ drawn' = 1 /\ UNCHANGED targeted
            /\ calls' = Append(calls, <<pc, idx>>)
            /\ Advance("spread_virus")
            /\ UNCHANGED raised
    /\ UNCHANGED <<running, ticks, fixed, hw_state, trend_state>>

hw_spread_virus ==
    /\ variant = "homework"
    /\ pc = "spread_virus"
    /\ IF cell[idx] = None
       THEN Raise /\ UNCHANGED <<is_infected, direct_infections, location_infections,
                                 cell_is_infected>>
       ELSE /\ IF is_infected[idx]
               THEN /\ cell_is_infected' = [cell_is_infected EXCEPT ![cell[idx]] = TRUE]
                    /\ \E s \in hw_infect_encountered(encountered_agents(idx), hw_fields) :
                          hw_set_fields(s)
               ELSE /\ drawn' = 0 /\ UNCHANGED targeted
                    /\ UNCHANGED <<is_infected, direct_infections, location_infections,
                                   cell_is_infected>>
            /\ calls' = Append(calls, <<pc, idx>>)
            /\ Advance("get_infected_from_cell")
            /\ UNCHANGED raised
    /\ UNCHANGED <<running, ticks, cell, fixed, virus_persistence, infected_property_layer,
                   model_vars, trend_state>>

hw_get_infected_from_cell ==
    /\ variant = "homework"
    /\ pc = "get_infected_from_cell"
    /\ IF cell[idx] = None
       THEN Raise /\ UNCHANGED <<is_infected, direct_infections, location_infections>>
       ELSE /\ IF is_infected[idx]
               THEN /\ drawn' = 0 /\ UNCHANGED targeted
                    /\ UNCHANGED <<is_infected, direct_infections, location_infections>>
               ELSE \E d \in Draws :
                       IF d < hw_get_infection_probabilty(idx)
                       THEN hw_set_fields([hw_get_infected(hw_fields, idx, FALSE)
                                              EXCEPT !.drawn = 1])
                       ELSE /\ drawn' = 1 /\ UNCHANGED targeted
                            /\ UNCHANGED <<is_infected, direct_infections,
                                           location_infections>>
            /\ calls' = Append(calls, <<pc, idx>>)
            /\ Advance("decay")
            /\ UNCHANGED raised
    /\ UNCHANGED <<running, ticks, cell, fixed, cell_is_infected, virus_persistence,
                   infected_property_layer, model_vars, trend_state>>

\* the counter incremented whoever stands on the cell
hw_persistence_after_ignores_occupants(c) == virus_persistence[c] + 1

\* the loop over grid.all_cells.cells that ends step: the counter of a
\* contaminated cell after its reset or increment
hw_persistence_after(c) ==
    IF \E a \in PersonAgents : cell[a] = c /\ is_infected[a]
    THEN 0
    ELSE virus_persistence[c] + 1

\* the test with a limit one higher
hw_virus_gone_one_later(c) == hw_persistence_after(c) > VirusPersistenceLimit + 1

\* the test that clears a contaminated cell
hw_virus_gone(c) == hw_persistence_after(c) > VirusPersistenceLimit

\* the decay loop without the write of False to the layer of a cleared cell
hw_decay_keeps_layer ==
    /\ variant = "homework"
    /\ pc = "decay"
    /\ cell_is_infected' =
          [c \in Cells |-> cell_is_infected[c] /\ ~hw_virus_gone(c)]
    /\ virus_persistence' =
          [c \in Cells |->
              IF cell_is_infected[c]
              THEN IF hw_virus_gone(c) THEN 0 ELSE hw_persistence_after(c)
              ELSE virus_persistence[c]]
    /\ infected_property_layer' =
          [c \in Cells |-> cell_is_infected[c] \/ infected_property_layer[c]]
    /\ pc' = "idle"
    /\ idx' = 1
    /\ calls' = Append(calls, <<pc, Cardinality({c \in Cells :
                                      cell_is_infected[c] /\ hw_virus_gone(c)})>>)
    /\ drawn' = 0 /\ UNCHANGED targeted
    /\ UNCHANGED <<running, ticks, raised, cell, fixed, is_infected, direct_infections,
                   location_infections, model_vars, trend_state>>

hw_decay ==
    /\ variant = "homework"
    /\ pc = "decay"
    /\ cell_is_infected' =
          [c \in Cells |-> cell_is_infected[c] /\ ~hw_virus_gone(c)]
    /\ virus_persistence' =
          [c \in Cells |->
              IF cell_is_infected[c]
              THEN IF hw_virus_gone(c) THEN 0 ELSE hw_persistence_after(c)
              ELSE virus_persistence[c]]
    /\ infected_property_layer' =
          [c \in Cells |->
              IF cell_is_infected[c] THEN ~hw_virus_gone(c)
              ELSE infected_property_layer[c]]
    /\ pc' = "idle"
    /\ idx' = 1
    /\ calls' = Append(calls, <<pc, Cardinality({c \in Cells :
                                      cell_is_infected[c] /\ hw_virus_gone(c)})>>)
    /\ drawn' = 0 /\ UNCHANGED targeted
    /\ UNCHANGED <<running, ticks, raised, cell, fixed, is_infected, direct_infections,
                   location_infections, model_vars, trend_state>>

\* ------------------------------------------------ trend models: shared shape
\* PersonAgents in creation order: sport enthusiasts, the others, the one
\* agent that knows the trend
trend_sport_enthusiast(N, sport_enthusiasts) ==
    [i \in 1 .. N + 1 |-> i <= sport_enthusiasts \/ i = N + 1]

trend_knows_about_trend(N) == [i \in 1 .. N + 1 |-> i = N + 1]

\* the guard with <= 1 for == 0
trend_all_but_one_know ==
    Cardinality({a \in PersonAgents : ~knows_about_trend[a]}) <= 1

\* the guard of _stop_condition.perform_step
trend_all_know == \A a \in PersonAgents : knows_about_trend[a]

\* the groups without the test of the trait
trend_group_of_any_trait(enthusiast) ==
    SelectSeq([i \in 1 .. Len(cell) |-> i], LAMBDA a : ~knows_about_trend[a])

\* agents.select(PersonAgent and not knows_about_trend).groupby('sport_enthusiast')
trend_group(enthusiast) ==
    SelectSeq([i \in 1 .. Len(cell) |-> i],
              LAMBDA a : ~knows_about_trend[a] /\ sport_enthusiast[a] = enthusiast)

\* the left operand of "agent.sport_enthusiast or random() < gossip_prob" tested
\* the other way round
trend_always_told_unless_enthusiast(agent) == ~sport_enthusiast[agent]

\* spread_news: the left operand of "agent.sport_enthusiast or ...", which
\* spares the draw
trend_always_told(agent) == sport_enthusiast[agent]

\* spread_news: the right operand, random() < self._gossip_prob, on a draw d
trend_gossips(d) == d < gossip_prob

\* laboratory_2 learn_about_trend: random() > skepticism_prob on a draw d
lab2_believes(d) == d > lab2_skepticism_prob

\* laboratory1 learn_about_trend: random() < self._skepticism_prob on a draw d
lab1_believes(d) == d < lab1_skepticism_prob

trend_fields ==
    [knows_about_trend |-> knows_about_trend,
     direct_interactions_count |-> direct_interactions_count,
     indirect_interactions_count |-> indirect_interactions_count,
     successful_direct_interactions_count |-> successful_direct_interactions_count,
     successful_indirect_interactions_count |-> successful_indirect_interactions_count,
     drawn |-> 0, reached |-> << >>]

trend_set_fields(s) ==
    /\ knows_about_trend' = s.knows_about_trend
    /\ direct_interactions_count' = s.direct_interactions_count
    /\ indirect_interactions_count' = s.indirect_interactions_count
    /\ successful_direct_interactions_count' = s.successful_direct_interactions_count
    /\ successful_indirect_interactions_count' = s.successful_indirect_interactions_count
    /\ drawn' = s.drawn
    /\ targeted' = targeted \o [i \in 1 .. Len(s.reached) |-> <<pc, idx, s.reached[i]>>]

\* the phase after the transmit phase, from the two groups
trend_after_groups(f, m, influencer_call) ==
    IF f # << >> /\ influencer_group_size > 0 THEN influencer_call
    ELSE IF m # << >> THEN "move_around_again"
    ELSE "idle"

\* ------------------------------------------------ laboratory_2
\* TrendSpreadModel.__init__ with PersonAgents of the given gossip_prob
lab2_construct(N, G, gossip) ==
    /\ variant = "laboratory_2"
    /\ population_size = N + 1
    /\ influencer_group_size = G
    /\ \E sport_enthusiasts \in 1 .. N :
          sport_enthusiast = trend_sport_enthusiast(N, sport_enthusiasts)
    /\ knows_about_trend = trend_knows_about_trend(N)
    /\ \E xy \in [1 .. N + 1 -> Cells] :
          cell = place_agents_on_grid(N + 1, N + 1, xy)
    /\ gossip_prob = gossip
    /\ direct_interactions_count = 0
    /\ indirect_interactions_count = 0
    /\ successful_direct_interactions_count = 0
    /\ successful_indirect_interactions_count = 0
    /\ followers = << >>
    /\ movers = << >>
    /\ InitControl
    /\ NoHomework

lab2_Init == \E p \in trend_Populations : lab2_construct(p[1], p[2], DefaultGossipProb)

\* learn_about_trend storing the outcome of the draw in the flag
lab2_learn_about_trend_stores_draw(s, agent, is_direct) ==
    { [s EXCEPT !.knows_about_trend[agent] = (d > lab2_skepticism_prob),
                !.successful_direct_interactions_count =
                    IF is_direct /\ d > lab2_skepticism_prob THEN @ + 1 ELSE @,
                !.successful_indirect_interactions_count =
                    IF ~is_direct /\ d > lab2_skepticism_prob THEN @ + 1 ELSE @,
                !.drawn = @ + 1] : d \in Draws }

\* learn_about_trend: every outcome of its draw
lab2_learn_about_trend(s, agent, is_direct) ==
    { IF lab2_believes(d)
      THEN [s EXCEPT !.knows_about_trend[agent] = TRUE,
                     !.successful_direct_interactions_count =
                         IF is_direct THEN @ + 1 ELSE @,
                     !.successful_indirect_interactions_count =
                         IF is_direct THEN @ ELSE @ + 1,
                     !.drawn = @ + 1]
      ELSE [s EXCEPT !.drawn = @ + 1] : d \in Draws }

\* the loop of spread_news with the gossip test inverted
RECURSIVE lab2_tell_encountered_gossip_inverted(_, _)
lab2_tell_encountered_gossip_inverted(targets, s) ==
    IF targets = << >> THEN {s}
    ELSE LET agent == Head(targets)
             told == [s EXCEPT !.direct_interactions_count = @ + 1,
                               !.reached = Append(@, agent)]
             after ==
                 IF s.knows_about_trend[agent] THEN {s}
                 ELSE IF sport_enthusiast[agent]
                      THEN lab2_learn_about_trend(told, agent, TRUE)
                      ELSE UNION { IF d > gossip_prob
                                   THEN lab2_learn_about_trend(
                                            [told EXCEPT !.drawn = @ + 1], agent, TRUE)
                                   ELSE {[s EXCEPT !.drawn = @ + 1]} : d \in Draws }
         IN  UNION { lab2_tell_encountered_gossip_inverted(Tail(targets), t) : t \in after }

\* the loop of spread_news over encountered_agents
RECURSIVE lab2_tell_encountered(_, _)
lab2_tell_encountered(targets, s) ==
    IF targets = << >> THEN {s}
    ELSE LET agent == Head(targets)
             told == [s EXCEPT !.direct_interactions_count = @ + 1,
                               !.reached = Append(@, agent)]
             after ==
                 IF s.knows_about_trend[agent] THEN {s}
                 ELSE IF trend_always_told(agent)
                      THEN lab2_learn_about_trend(told, agent, TRUE)
                      ELSE UNION { IF trend_gossips(d)
                                   THEN lab2_learn_about_trend(
                                            [told EXCEPT !.drawn = @ + 1], agent, TRUE)
                                   ELSE {[s EXCEPT !.drawn = @ + 1]} : d \in Draws }
         IN  UNION { lab2_tell_encountered(Tail(targets), t) : t \in after }

\* the loop of spread_news_among_random_followers without its increment of
\* indirect_interactions_count
RECURSIVE lab2_reach_followers_uncounted(_, _)
lab2_reach_followers_uncounted(targets, s) ==
    IF targets = << >> THEN {s}
    ELSE LET agent == Head(targets)
             after ==
                 UNION { IF d < lab2_influencer_reach
                         THEN lab2_learn_about_trend(
                                  [s EXCEPT !.drawn = @ + 1,
                                            !.reached = Append(@, agent)], agent, FALSE)
                         ELSE {[s EXCEPT !.drawn = @ + 1]} : d \in Draws }
         IN  UNION { lab2_reach_followers_uncounted(Tail(targets), t) : t \in after }

\* the loop of spread_news_among_random_followers over followers
RECURSIVE lab2_reach_followers(_, _)
lab2_reach_followers(targets, s) ==
    IF targets = << >> THEN {s}
    ELSE LET agent == Head(targets)
             after ==
                 UNION { IF d < lab2_influencer_reach
                         THEN lab2_learn_about_trend(
                                  [s EXCEPT !.indirect_interactions_count = @ + 1,
                                            !.drawn = @ + 1,
                                            !.reached = Append(@, agent)], agent, FALSE)
                         ELSE {[s EXCEPT !.drawn = @ + 1]} : d \in Draws }
         IN  UNION { lab2_reach_followers(Tail(targets), t) : t \in after }

\* successes / attempts: a zero divisor raises ZeroDivisionError
lab2_truediv(successes, attempts) ==
    IF attempts = 0 THEN [raises |-> TRUE, ratio |-> <<0, 0>>]
    ELSE [raises |-> FALSE, ratio |-> <<successes, attempts>>]

\* the reporter dividing without its test for zero
lab2_direct_interaction_success_ration_unguarded ==
    lab2_truediv(successful_direct_interactions_count, direct_interactions_count)

\* the reporters, as a fraction <<numerator, denominator>>
lab2_direct_interaction_success_ration ==
    IF direct_interactions_count = 0 THEN [raises |-> FALSE, ratio |-> <<0, 1>>]
    ELSE lab2_truediv(successful_direct_interactions_count, direct_interactions_count)

lab2_indirect_interaction_success_ration ==
    IF indirect_interactions_count = 0 THEN [raises |-> FALSE, ratio |-> <<0, 1>>]
    ELSE lab2_truediv(successful_indirect_interactions_count,
                      indirect_interactions_count)

\* the decorated step: perform_step
lab2_step ==
    /\ variant = "laboratory_2"
    /\ pc = "idle"
    /\ IF trend_all_know
       THEN /\ running' = FALSE
            /\ UNCHANGED <<ticks, pc, idx, calls, drawn, targeted>>
       ELSE /\ ticks < MaxTicks
            /\ ticks' = ticks + 1
            /\ pc' = "move_around"
            /\ idx' = 1
            /\ calls' = << >>
            /\ drawn' = 0
            /\ targeted' = << >>
            /\ UNCHANGED running
    /\ UNCHANGED <<raised, cell, fixed, hw_state, trend_state>>

\* move_around in PersonAgent.do of step
lab2_move_around ==
    /\ variant = "laboratory_2"
    /\ pc = "move_around"
    /\ IF cell[idx] = None
       THEN Raise /\ UNCHANGED cell
       ELSE /\ \E c \in Neighborhood(cell[idx]) : cell' = [cell EXCEPT ![idx] = c]
            /\ drawn' = 1 /\ UNCHANGED targeted
            /\ calls' = Append(calls, <<pc, idx>>)
            /\ Advance("spread_news")
            /\ UNCHANGED raised
    /\ UNCHANGED <<running, ticks, fixed, hw_state, trend_state>>

lab2_spread_news ==
    /\ variant = "laboratory_2"
    /\ pc = "spread_news"
    /\ IF cell[idx] = None
       THEN Raise /\ UNCHANGED <<knows_about_trend, counters>>
       ELSE /\ IF knows_about_trend[idx]
               THEN \E s \in lab2_tell_encountered(encountered_agents(idx), trend_fields) :
                       trend_set_fields(s)
               ELSE drawn' = 0 /\ UNCHANGED targeted /\ UNCHANGED <<knows_about_trend, counters>>
            /\ calls' = Append(calls, <<pc, idx>>)
            /\ Advance("influencer_agents_step")
            /\ UNCHANGED raised
    /\ UNCHANGED <<running, ticks, cell, fixed, hw_state, followers, movers>>

\* influencer_agents_step up to its loop: select and groupby
lab2_influencer_agents_step ==
    /\ variant = "laboratory_2"
    /\ pc = "influencer_agents_step"
    /\ followers' = trend_group(TRUE)
    /\ movers' = trend_group(FALSE)
    /\ pc' = trend_after_groups(trend_group(TRUE), trend_group(FALSE),
                                "spread_news_among_random_followers")
    /\ idx' = 1
    /\ drawn' = 0 /\ UNCHANGED targeted
    /\ UNCHANGED <<running, ticks, calls, raised, cell, fixed, hw_state, knows_about_trend,
                   counters>>

\* influencer_agents.do('spread_news_among_random_followers', agents)
lab2_spread_news_among_random_followers ==
    /\ variant = "laboratory_2"
    /\ pc = "spread_news_among_random_followers"
    /\ \E s \in lab2_reach_followers(followers, trend_fields) : trend_set_fields(s)
    /\ calls' = Append(calls, <<pc, idx>>)
    /\ IF idx < influencer_group_size
       THEN pc' = pc /\ idx' = idx + 1
       ELSE pc' = trend_after_groups(<< >>, movers, pc) /\ idx' = 1
    /\ UNCHANGED <<running, ticks, raised, cell, fixed, hw_state, followers, movers>>

\* agents.do('move_around') of the group that is not sport enthusiast
lab2_move_around_again ==
    /\ variant = "laboratory_2"
    /\ pc = "move_around_again"
    /\ IF cell[movers[idx]] = None
       THEN Raise /\ UNCHANGED cell
       ELSE /\ \E c \in Neighborhood(cell[movers[idx]]) :
                  cell' = [cell EXCEPT ![movers[idx]] = c]
            /\ drawn' = 1 /\ UNCHANGED targeted
            /\ calls' = Append(calls, <<pc, movers[idx]>>)
            /\ IF idx < Len(movers)
               THEN pc' = pc /\ idx' = idx + 1
               ELSE pc' = "idle" /\ idx' = 1
            /\ UNCHANGED raised
    /\ UNCHANGED <<running, ticks, fixed, hw_state, trend_state>>

\* ------------------------------------------------ laboratory1
lab1_Init ==
    /\ variant = "laboratory1"
    /\ \E p \in trend_Populations :
          /\ population_size = p[1] + 1
          /\ influencer_group_size = p[2]
          /\ \E sport_enthusiasts \in 1 .. p[1] :
                sport_enthusiast = trend_sport_enthusiast(p[1], sport_enthusiasts)
          /\ knows_about_trend = trend_knows_about_trend(p[1])
          /\ \E xy \in [1 .. p[1] + 1 -> Cells] :
                cell = place_agents_on_grid(p[1] + 1, p[1] + 1, xy)
    /\ gossip_prob = DefaultGossipProb
    /\ direct_interactions_count = 0
    /\ indirect_interactions_count = 0
    /\ successful_direct_interactions_count = 0
    /\ successful_indirect_interactions_count = 0
    /\ followers = << >>
    /\ movers = << >>
    /\ InitControl
    /\ NoHomework

\* learn_about_trend: every outcome of its draw
lab1_learn_about_trend(s, agent) ==
    { IF lab1_believes(d)
      THEN [s EXCEPT !.knows_about_trend[agent] = TRUE, !.drawn = @ + 1,
                     !.reached = Append(@, agent)]
      ELSE [s EXCEPT !.drawn = @ + 1, !.reached = Append(@, agent)] : d \in Draws }

\* the loop of spread_news over encountered_agents
RECURSIVE lab1_tell_encountered(_, _)
lab1_tell_encountered(targets, s) ==
    IF targets = << >> THEN {s}
    ELSE LET agent == Head(targets)
             after ==
                 IF s.knows_about_trend[agent] THEN {s}
                 ELSE IF trend_always_told(agent)
                      THEN lab1_learn_about_trend(s, agent)
                      ELSE UNION { IF trend_gossips(d)
                                   THEN lab1_learn_about_trend(
                                            [s EXCEPT !.drawn = @ + 1], agent)
                                   ELSE {[s EXCEPT !.drawn = @ + 1]} : d \in Draws }
         IN  UNION { lab1_tell_encountered(Tail(targets), t) : t \in after }

\* the loop of spread_news_among_followers over followers
RECURSIVE lab1_reach_followers(_, _)
lab1_reach_followers(targets, s) ==
    IF targets = << >> THEN {s}
    ELSE UNION { lab1_reach_followers(Tail(targets), t) :
                    t \in lab1_learn_about_trend(s, Head(targets)) }

\* the decorated step: perform_step
lab1_step ==
    /\ variant = "laboratory1"
    /\ pc = "idle"
    /\ IF trend_all_know
       THEN /\ running' = FALSE
            /\ UNCHANGED <<ticks, pc, idx, calls, drawn, targeted>>
       ELSE /\ ticks < MaxTicks
            /\ ticks' = ticks + 1
            /\ pc' = "move_around"
            /\ idx' = 1
            /\ calls' = << >>
            /\ drawn' = 0
            /\ targeted' = << >>
            /\ UNCHANGED running
    /\ UNCHANGED <<raised, cell, fixed, hw_state, trend_state>>

\* move_around: grid.get_neighborhood, then grid.move_agent_to_one_of
lab1_move_around ==
    /\ variant = "laboratory1"
    /\ pc = "move_around"
    /\ \E c \in Neighborhood(cell[idx]) : cell' = [cell EXCEPT ![idx] = c]
    /\ drawn' = 1 /\ UNCHANGED targeted
    /\ calls' = Append(calls, <<pc, idx>>)
    /\ Advance("spread_news")
    /\ UNCHANGED <<running, ticks, raised, fixed, hw_state, trend_state>>

lab1_spread_news ==
    /\ variant = "laboratory1"
    /\ pc = "spread_news"
    /\ IF knows_about_trend[idx]
       THEN \E s \in lab1_tell_encountered(encountered_agents(idx), trend_fields) :
               trend_set_fields(s)
       ELSE drawn' = 0 /\ UNCHANGED targeted /\ UNCHANGED <<knows_about_trend, counters>>
    /\ calls' = Append(calls, <<pc, idx>>)
    /\ Advance("select_groups")
    /\ UNCHANGED <<running, ticks, raised, cell, fixed, hw_state, followers, movers>>

\* step after the transmit phase, up to its loop: select and groupby
lab1_select_groups ==
    /\ variant = "laboratory1"
    /\ pc = "select_groups"
    /\ followers' = trend_group(TRUE)
    /\ movers' = trend_group(FALSE)
    /\ pc' = trend_after_groups(trend_group(TRUE), trend_group(FALSE),
                                "spread_news_among_followers")
    /\ idx' = 1
    /\ drawn' = 0 /\ UNCHANGED targeted
    /\ UNCHANGED <<running, ticks, calls, raised, cell, fixed, hw_state, knows_about_trend,
                   counters>>

\* influencer_agents.do('spread_news_among_followers', agents)
lab1_spread_news_among_followers ==
    /\ variant = "laboratory1"
    /\ pc = "spread_news_among_followers"
    /\ \E s \in lab1_reach_followers(followers, trend_fields) : trend_set_fields(s)
    /\ calls' = Append(calls, <<pc, idx>>)
    /\ IF idx < influencer_group_size
       THEN pc' = pc /\ idx' = idx + 1
       ELSE pc' = trend_after_groups(<< >>, movers, pc) /\ idx' = 1
    /\ UNCHANGED <<running, ticks, raised, cell, fixed, hw_state, followers, movers>>

\* agents.do('move_around') of the group that is not sport enthusiast
lab1_move_around_again ==
    /\ variant = "laboratory1"
    /\ pc = "move_around_again"
    /\ \E c \in Neighborhood(cell[movers[idx]]) :
          cell' = [cell EXCEPT ![movers[idx]] = c]
    /\ drawn' = 1 /\ UNCHANGED targeted
    /\ calls' = Append(calls, <<pc, movers[idx]>>)
    /\ IF idx < Len(movers)
       THEN pc' = pc /\ idx' = idx + 1
       ELSE pc' = "idle" /\ idx' = 1
    /\ UNCHANGED <<running, ticks, raised, fixed, hw_state, trend_state>>

\* ------------------------------------------------ specifications
hw_Next ==
    \/ hw_step
    \/ hw_move_around
    \/ hw_spread_virus
    \/ hw_get_infected_from_cell
    \/ hw_decay

\* no tick starts once MaxInteractions attempts were counted
lab2_bounded ==
    /\ variant = "laboratory_2"
    /\ \/ trend_all_know
       \/ direct_interactions_count + indirect_interactions_count < MaxInteractions

\* the behaviour calls of one tick
lab2_tick ==
    \/ lab2_move_around
    \/ lab2_spread_news
    \/ lab2_influencer_agents_step
    \/ lab2_spread_news_among_random_followers
    \/ lab2_move_around_again

lab2_Next ==
    \/ lab2_bounded /\ lab2_step
    \/ lab2_tick

lab1_Next ==
    \/ lab1_step
    \/ lab1_move_around
    \/ lab1_spread_news
    \/ lab1_select_groups
    \/ lab1_spread_news_among_followers
    \/ lab1_move_around_again

Init == hw_Init \/ lab2_Init \/ lab1_Init

Next == hw_Next \/ lab2_Next \/ lab1_Next

\* all three models
Spec == Init /\ [][Next]_vars

hw_Spec == hw_Init /\ [][hw_Next]_vars

lab2_Spec == lab2_Init /\ [][lab2_Next]_vars

lab1_Spec == lab1_Init /\ [][lab1_Next]_vars

\* ------------------------------------------------ properties
\* the informed/infected flag of a regular agent
Informed(a) ==
    IF variant = "homework" THEN is_infected[a] ELSE knows_about_trend[a]

AllInformed == \A a \in PersonAgents : Informed(a)

\* everything but running
AllButRunning ==
    <<ticks, pc, idx, calls, drawn, targeted, raised, cell, fixed, hw_state, trend_state>>

\* C1: in every model, a regular agent whose informed/infected flag is true
\* keeps it true across every step call and every behaviour call.
C1_InformedNeverReverts ==
    [][\A a \in PersonAgents : Informed(a) => Informed(a)']_vars

\* an agent of laboratory_2 that learned the trend in an earlier tick is
\* offered it again by a second influencer
C1_Witness ==
    /\ variant = "laboratory_2"
    /\ ticks >= 2
    /\ pc = "idle"
    /\ successful_indirect_interactions_count >= 1
    /\ calls # << >>
    /\ calls[Len(calls)] = <<"spread_news_among_random_followers", 2>>
    /\ \E a \in PersonAgents : a # Len(cell) /\ knows_about_trend[a]

\* C2 as stated: at the end of the tick in which the last agent becomes
\* informed/infected, running is already false.
C2_RunningFalseAtEndOfLastTick ==
    (pc = "idle" /\ ticks >= 1 /\ AllInformed) => ~running

\* C2 amended: running turns false only in a step call that starts with every
\* regular agent informed/infected, every such call leaves it false, and the
\* call that informs the last agent leaves it true.
C2_RunningFalseOnTheNextCall ==
    [][ /\ (running /\ ~running') => (pc = "idle" /\ AllInformed /\ pc' = "idle")
        /\ (pc = "idle" /\ AllInformed) => ~running'
        /\ (~AllInformed /\ AllInformed') => running' ]_vars

\* the last agent became informed in a tick and a later call stopped the model
C2_Witness ==
    /\ ~running
    /\ ticks >= 1
    /\ AllInformed
    /\ pc = "idle"

\* C3: running starts true, running = false implies that no regular agent is
\* uninformed/uninfected, and no step sets running back to true.
C3_StoppedIsTerminal ==
    /\ running = TRUE
    /\ [](~running => AllInformed)
    /\ [][~running => ~running']_vars

\* laboratory1 stopped after its agents learned the trend
C3_Witness ==
    /\ variant = "laboratory1"
    /\ ~running
    /\ \A a \in PersonAgents : knows_about_trend[a]

\* C4: a step call that starts with every regular agent informed/infected sets
\* running to false and changes nothing else: no row is collected, no agent
\* moves, no draw is taken, no counter and no cell property changes.
C4_StoppedStepChangesOnlyRunning ==
    [][(pc = "idle" /\ AllInformed) => (~running' /\ UNCHANGED AllButRunning)]_vars

\* the disease model stopped by such a call, with contaminated cells
C4_Witness ==
    /\ variant = "homework"
    /\ ~running
    /\ hw_all_infected
    /\ Len(model_vars) = ticks + 1
    /\ \E c \in Cells : cell_is_infected[c]

\* ---- the co-located scenario of laboratory_2
\* five regular agents, one of them knowing the trend, gossip_prob 1.0, all
\* on one cell
C5_Init ==
    /\ lab2_construct(4, 1, 100)
    /\ \A a, b \in PersonAgents : cell[a] = cell[b]

C5_Together == \A a, b \in PersonAgents : cell[a] = cell[b]

\* the move phase ends with every agent on one cell
C5_Next == (lab2_step \/ lab2_tick) /\ (pc' = "spread_news" => C5_Together')

C5_Spec == C5_Init /\ [][C5_Next]_vars

\* no learn_about_trend call has refused the trend so far
C5_NoRefusal ==
    /\ successful_direct_interactions_count = direct_interactions_count
    /\ successful_indirect_interactions_count = indirect_interactions_count

\* C5 as stated: after four ticks of the scenario all five agents are informed
\* and running is false, whatever the other draws.
C5_AllInformedAndStoppedAfterFourTicks ==
    (ticks >= 4 /\ pc = "idle") => (AllInformed /\ ~running)

\* C5 amended: as long as no learn_about_trend draw refuses the trend, all five
\* agents are informed once the transmit phase of the first tick is over, the
\* model is still running during that tick, and the next step call stops it.
C5_AllInformedInFirstTickUnlessRefused ==
    /\ [](( /\ ticks >= 1
            /\ pc \notin {"move_around", "spread_news"}
            /\ C5_NoRefusal )
          => (AllInformed /\ ticks = 1 /\ (pc # "idle" => running)))
    /\ [][(~AllInformed /\ AllInformed') => running']_vars
    /\ [][(pc = "idle" /\ AllInformed) => ~running']_vars

\* the pre-informed agent told the four others, none refused, and the next
\* call stopped the model
C5_Witness ==
    /\ ticks = 1
    /\ pc = "idle"
    /\ ~running
    /\ AllInformed
    /\ C5_NoRefusal
    /\ direct_interactions_count = 4

\* ---- the lone infected agent of the disease model
\* the first tick (the only one that starts with no contaminated cell) is past
\* its move phase, agent 1 was the only infected agent when it started, it
\* shares its cell with nobody and nobody has comorbidities
C6_AloneAfterMoving ==
    /\ variant = "homework"
    /\ ticks = 1
    /\ pc \in {"spread_virus", "get_infected_from_cell", "decay", "idle"}
    /\ Cardinality({a \in PersonAgents : is_infected[a]})
          - direct_infections - location_infections = 1
    /\ \A a \in PersonAgents : ~has_comorbidities[a] /\ cell[a] # None
    /\ \A a \in PersonAgents \ {1} : cell[a] # cell[1]

\* C6 as stated: in such a tick no agent becomes infected, neither counter
\* changes, and the cell of the infected agent is contaminated when it ends.
C6_NoInfectionWhenAlone ==
    C6_AloneAfterMoving =>
        /\ direct_infections = 0
        /\ location_infections = 0
        /\ pc = "idle" => cell_is_infected[cell[1]]

\* C6 amended: in such a tick nobody is infected directly; an agent is infected
\* only by get_infected_from_cell, only on a cell next to the infected agent's
\* cell and not before that cell is contaminated; the cell of the infected
\* agent is contaminated from its spread_virus call to the end of the tick,
\* with its persistence counter at 0.
C6_OnlyNeighboursInfectedWhenAlone ==
    C6_AloneAfterMoving =>
        /\ direct_infections = 0
        /\ location_infections = Cardinality({a \in PersonAgents \ {1} : is_infected[a]})
        /\ \A a \in PersonAgents \ {1} :
              is_infected[a] =>
                  /\ cell[a] \in Neighborhood(cell[1])
                  /\ pc # "spread_virus"
                  /\ pc = "get_infected_from_cell" => a < idx
        /\ (pc # "spread_virus" \/ idx > 1) => cell_is_infected[cell[1]]
        /\ pc = "idle" => virus_persistence[cell[1]] = 0

\* the agent next to the lone infected agent caught the virus from the cell
C6_Witness ==
    /\ C6_AloneAfterMoving
    /\ pc = "idle"
    /\ location_infections = 1
    /\ cell_is_infected[cell[1]]

\* ---- the decay of contaminated cells
\* an infected agent stands on cell c
C7_InfectedOccupant(c) == \E a \in PersonAgents : cell[a] = c /\ is_infected[a]

\* C7 as stated: the decay step clears a contaminated cell only when its
\* counter, incremented, exceeds 3, and then resets the counter to 0.
C7_ClearedOnlyAboveThree ==
    [][\A c \in Cells :
          (variant = "homework" /\ cell_is_infected[c] /\ ~cell_is_infected'[c])
              => (virus_persistence[c] + 1 > 3 /\ virus_persistence'[c] = 0)]_vars

\* C7 amended: the decay step clears a contaminated cell exactly when no
\* infected agent stands on it and its counter, incremented, reaches 3 (the
\* third tick in a row that ends without an infected occupant), and then
\* resets the counter to 0; otherwise the cell stays contaminated with the
\* counter at 0 (infected occupant) or incremented; no other call clears a cell.
C7_ClearedWhenCounterReachesThree ==
    [][variant = "homework" =>
          \A c \in Cells :
             /\ (pc # "decay" /\ cell_is_infected[c]) => cell_is_infected'[c]
             /\ (pc = "decay" /\ cell_is_infected[c]) =>
                   IF ~C7_InfectedOccupant(c) /\ virus_persistence[c] + 1 = 3
                   THEN /\ ~cell_is_infected'[c]
                        /\ virus_persistence'[c] = 0
                        /\ ~infected_property_layer'[c]
                   ELSE /\ cell_is_infected'[c]
                        /\ virus_persistence'[c] =
                              IF C7_InfectedOccupant(c) THEN 0
                              ELSE virus_persistence[c] + 1
                        /\ virus_persistence'[c] < 3]_vars

\* the decay step of the latest tick cleared a cell
C7_Witness ==
    /\ variant = "homework"
    /\ pc = "idle"
    /\ calls # << >>
    /\ calls[Len(calls)][1] = "decay"
    /\ calls[Len(calls)][2] >= 1

\* ---- the ratio reporters of laboratory_2
\* a reporter returned 0 and raised nothing
C8_ReturnsZero(r) == ~r.raises /\ r.ratio[1] = 0 /\ r.ratio[2] # 0

\* C8: in every state, a ratio reporter whose attempt counter is 0 returns 0
\* and raises no division error.
C8_ZeroAttemptsReportZero ==
    variant = "laboratory_2" =>
        /\ direct_interactions_count = 0
              => C8_ReturnsZero(lab2_direct_interaction_success_ration)
        /\ indirect_interactions_count = 0
              => C8_ReturnsZero(lab2_indirect_interaction_success_ration)

\* after a tick nobody was told directly while an influencer reached a
\* follower: one reporter has nothing to divide by, the other divides
C8_Witness ==
    /\ variant = "laboratory_2"
    /\ ticks >= 1
    /\ direct_interactions_count = 0
    /\ indirect_interactions_count >= 1
    /\ C8_ReturnsZero(lab2_direct_interaction_success_ration)
    /\ lab2_indirect_interaction_success_ration.ratio[2] = indirect_interactions_count

\* ---- the order of the phases of one tick
\* the phase a logged call belongs to
C10_Phase(call) ==
    CASE call[1] = "move_around" -> 1
      [] call[1] \in {"spread_virus", "spread_news"} -> 2
      [] call[1] \in {"get_infected_from_cell", "spread_news_among_random_followers",
                      "spread_news_among_followers"} -> 3
      [] OTHER -> 4

\* the phases every regular agent takes part in
C10_PopulationWide == IF variant = "homework" THEN {1, 2, 3} ELSE {1, 2}

\* C10: the calls of a tick are made phase by phase (move, transmit, then
\* passive acquisition and decay in the disease model, the influencer phase
\* in the trend models); a call of a later phase is made only after every
\* regular agent made its call of each earlier phase; and the disease model
\* collects its row when the tick starts, before any call changes anything.
C10_PhasesInOrder ==
    /\ [](\A j \in DOMAIN calls :
             /\ \A i \in 1 .. j - 1 : C10_Phase(calls[i]) <= C10_Phase(calls[j])
             /\ \A r \in C10_PopulationWide :
                   r < C10_Phase(calls[j]) =>
                       \A a \in PersonAgents :
                          \E i \in 1 .. j - 1 : calls[i][2] = a /\ C10_Phase(calls[i]) = r)
    /\ [](variant = "homework" => Len(model_vars) = ticks + 1)
    /\ [][model_vars' # model_vars =>
             /\ pc = "idle" /\ pc' = "move_around" /\ idx' = 1 /\ calls' = << >>
             /\ model_vars' = Append(model_vars, <<direct_infections, location_infections>>)
             /\ UNCHANGED <<cell, is_infected, direct_infections, location_infections,
                            cell_is_infected, virus_persistence>>]_vars

\* a tick of the disease model with three agents ran its four phases, and an
\* agent was infected in it
C10_Witness ==
    /\ variant = "homework"
    /\ pc = "idle"
    /\ ~raised
    /\ Len(cell) = 3
    /\ Len(calls) = 3 * Len(cell) + 1
    /\ Len(model_vars) >= 2
    /\ model_vars[Len(model_vars)] # <<direct_infections, location_infections>>

\* ---- the counters
\* agents whose informed/infected flag the step sets
C11_Turned ==
    Cardinality({a \in PersonAgents : ~Informed(a) /\ Informed(a)'})

\* uninformed agents that are not sport enthusiasts on the cell of the caller:
\* spread_news draws once for each before it counts an attempt
C11_GossipDraws ==
    Cardinality({b \in PersonAgents : /\ b # idx
                                      /\ cell[b] = cell[idx]
                                      /\ ~knows_about_trend[b]
                                      /\ ~sport_enthusiast[b]})

C12_SpatialCalls ==
    {"move_around", "spread_virus", "get_infected_from_cell", "spread_news",
     "move_around_again"}

\* the agent making the next call
C12_Caller == IF pc = "move_around_again" THEN movers[idx] ELSE idx

C13_Populations == { <<5, 4, 1>>, <<5, 3, 3>> }

C13_Init == \E p \in C13_Populations : hw_construct(p[1], p[2], p[3])

C13_Spec == C13_Init /\ [][hw_Next]_vars

\* C13: before the first step the disease model holds exactly population_size
\* agents, infected_population_size of them infected without comorbidities,
\* comorbidities_population_size uninfected with comorbidities, the others
\* uninfected without comorbidities, and every agent is on a cell.
C13_PopulationAsConfigured ==
    (variant = "homework" /\ ticks = 0) =>
        /\ Len(cell) = population_size
        /\ Cardinality({a \in PersonAgents : is_infected[a] /\ ~has_comorbidities[a]})
              = infected_population_size
        /\ Cardinality({a \in PersonAgents : ~is_infected[a] /\ has_comorbidities[a]})
              = comorbidities_population_size
        /\ Cardinality({a \in PersonAgents : ~is_infected[a] /\ ~has_comorbidities[a]})
              = population_size - infected_population_size
                  - comorbidities_population_size
        /\ \A a \in PersonAgents : cell[a] # None

\* ---- the agents and their traits
\* agents the constructor creates
C14_Constructed ==
    IF variant = "homework"
    THEN infected_population_size + comorbidities_population_size
            + Max(population_size - infected_population_size
                     - comorbidities_population_size, 0)
    ELSE population_size

\* C14: no step call and no behaviour call adds or removes a regular agent or
\* an influencer or changes has_comorbidities or sport_enthusiast: agents and
\* traits stay those of the construction.
C14_AgentsAndTraitsFixed ==
    /\ [](Len(cell) = C14_Constructed)
    /\ [][ /\ DOMAIN cell' = DOMAIN cell
           /\ DOMAIN is_infected' = DOMAIN is_infected
           /\ DOMAIN knows_about_trend' = DOMAIN knows_about_trend
           /\ has_comorbidities' = has_comorbidities
           /\ sport_enthusiast' = sport_enthusiast
           /\ influencer_group_size' = influencer_group_size ]_vars

\* after two ticks of the disease model with three agents, the agent with
\* comorbidities is infected and is still the only one with comorbidities
C14_Witness ==
    /\ variant = "homework"
    /\ ticks >= 2
    /\ pc = "idle"
    /\ Len(cell) = 3
    /\ is_infected[3] /\ has_comorbidities[3]
    /\ ~has_comorbidities[1] /\ ~has_comorbidities[2]

\* ---- the influencer phase of the trend models
C15_Range(seq) == {seq[i] : i \in DOMAIN seq}

C15_PartitionCalls == {"influencer_agents_step", "select_groups"}

C15_BroadcastCalls == {"spread_news_among_random_followers", "spread_news_among_followers"}

\* calls of the given name the agent (or influencer) made in the latest tick
C15_Calls(name, a) == Cardinality({i \in DOMAIN calls : calls[i] = <<name, a>>})

\* C15: the partition puts the uninformed sport enthusiasts in the group the
\* influencers broadcast to and the uninformed others in the group that
\* moves again; every influencer goes through the whole first group, whose
\* agents do not move again; every agent of the second group makes exactly
\* one more move_around and gets no broadcast; an agent informed at the
\* partition is in neither group.
C15_PartitionByTrait ==
    /\ [][(pc \in C15_PartitionCalls) =>
             /\ C15_Range(followers') =
                   {a \in PersonAgents : ~knows_about_trend[a] /\ sport_enthusiast[a]}
             /\ C15_Range(movers') =
                   {a \in PersonAgents : ~knows_about_trend[a] /\ ~sport_enthusiast[a]}
             /\ Len(followers') = Cardinality(C15_Range(followers'))
             /\ Len(movers') = Cardinality(C15_Range(movers'))]_vars
    /\ [][(pc \in C15_BroadcastCalls) =>
             /\ drawn' >= Len(followers)
             /\ cell' = cell
             /\ \A a \in PersonAgents :
                   knows_about_trend'[a] # knows_about_trend[a]
                       => a \in C15_Range(followers)]_vars
    /\ [][(pc = "move_around_again") =>
             /\ knows_about_trend' = knows_about_trend
             /\ \A a \in PersonAgents : cell'[a] # cell[a] => a = movers[idx]]_vars
    /\ []((variant # "homework" /\ pc = "idle" /\ ticks >= 1) =>
             /\ \A a \in PersonAgents :
                   C15_Calls("move_around_again", a) =
                       IF a \in C15_Range(movers) THEN 1 ELSE 0
             /\ \A k \in 1 .. influencer_group_size :
                   \A name \in C15_BroadcastCalls :
                      C15_Calls(name, k) =
                          IF /\ followers # << >>
                             /\ (name = "spread_news_among_followers")
                                    = (variant = "laboratory1")
                          THEN 1 ELSE 0
             /\ \A i \in DOMAIN targeted :
                   targeted[i][1] \in C15_BroadcastCalls
                       => targeted[i][3] \in C15_Range(followers))

\* a tick of laboratory_2 in which one agent was in the group of the
\* influencers and another moved again
C15_Witness ==
    /\ variant = "laboratory_2"
    /\ pc = "idle"
    /\ followers # << >>
    /\ movers # << >>
    /\ C15_Calls("spread_news_among_random_followers", 1) = 1
    /\ C15_Calls("move_around_again", movers[1]) = 1

\* ---- deliveries of the influencers
\* C16: a broadcast call delivers the trend only to agents that do not know
\* it yet: no agent that an earlier influencer informed in the same phase
\* gets a delivery.
C16_DeliversOnlyToUninformed ==
    [][(pc \in C15_BroadcastCalls) =>
          \A i \in Len(targeted) + 1 .. Len(targeted') :
             ~knows_about_trend[targeted'[i][3]]]_vars

\* C17: in laboratory_2 the two success counters add up to the number of
\* agents that learned the trend since construction.
C17_SuccessesCountInformedAgents ==
    variant = "laboratory_2" =>
        successful_direct_interactions_count + successful_indirect_interactions_count
            = Cardinality({a \in PersonAgents : knows_about_trend[a]}) - 1

\* ---- infections counted once
\* C18: in the disease model the two infection counters add up to the number
\* of infected agents less those infected at construction; spread_virus
\* draws only against the agents of its cell that are not infected, and
\* get_infected_from_cell draws only for an agent that is not infected.
C18_InfectionsCountInfectedAgents ==
    /\ [](variant = "homework" =>
             direct_infections + location_infections
                 = Cardinality({a \in PersonAgents : is_infected[a]})
                      - infected_population_size)
    /\ [][(variant = "homework" /\ pc = "spread_virus" /\ cell[idx] # None) =>
             drawn' = IF is_infected[idx]
                      THEN Cardinality({b \in PersonAgents \ {idx} :
                                           cell[b] = cell[idx] /\ ~is_infected[b]})
                      ELSE 0]_vars
    /\ [][(variant = "homework" /\ pc = "get_infected_from_cell" /\ cell[idx] # None) =>
             drawn' = IF is_infected[idx] THEN 0 ELSE 1]_vars

\* the first of two infected agents infected the third agent on their cell,
\* and the second made no attempt on it
C18_Witness ==
    /\ variant = "homework"
    /\ pc = "get_infected_from_cell"
    /\ infected_population_size = 2
    /\ cell[1] = cell[3] /\ cell[2] = cell[3]
    /\ direct_infections = 1
    /\ targeted = << <<"spread_virus", 1, 3>> >>

\* ---- actors and their targets within a tick
\* the actor of an entry of targeted: the call and who made it
C19_Actor(t) == <<t[1], t[2]>>

\* C19 as stated: within a tick no agent is the target of a transmission
\* attempt or a delivery of two different actors.
C19_OneActorPerTarget ==
    \A i, j \in DOMAIN targeted :
       targeted[i][3] = targeted[j][3] => C19_Actor(targeted[i]) = C19_Actor(targeted[j])

\* C19 amended: the actors act one after the other: the attempts of a call
\* are those of the agent or influencer making it, the attempts of an actor
\* are not interleaved with those of another, and within a tick an actor
\* targets a given agent at most once, never itself; a spreading agent
\* targets only agents that are not informed/infected when its call starts.
\* An agent can be the target of several actors in one tick.
C19_ActorsActInTurn ==
    /\ [](\A i, j \in DOMAIN targeted :
             /\ i < j => targeted[i] # targeted[j]
             /\ (i < j /\ C19_Actor(targeted[i]) = C19_Actor(targeted[j]))
                   => \A k \in i .. j : C19_Actor(targeted[k]) = C19_Actor(targeted[i])
             /\ targeted[i][1] \notin C15_BroadcastCalls => targeted[i][2] # targeted[i][3])
    /\ [][(pc # "idle") =>
             /\ Len(targeted') >= Len(targeted)
             /\ SubSeq(targeted', 1, Len(targeted)) = targeted
             /\ \A i \in Len(targeted) + 1 .. Len(targeted') :
                   /\ C19_Actor(targeted'[i]) = <<pc, idx>>
                   /\ pc \notin C15_BroadcastCalls => ~Informed(targeted'[i][3])]_vars

\* in one tick of laboratory_2 an agent refused the trend told by an agent on
\* its cell and then got it delivered by an influencer
C19_Witness ==
    /\ variant = "laboratory_2"
    /\ pc = "idle"
    /\ \E i, j \in DOMAIN targeted :
          /\ i < j
          /\ targeted[i][1] = "spread_news"
          /\ targeted[j][1] = "spread_news_among_random_followers"
          /\ targeted[i][3] = targeted[j][3]

\* ---- the persistence counter of an occupied cell
\* C20: the decay step sets the counter of a contaminated cell on which an
\* infected agent stands to 0 and leaves the cell contaminated; a counter
\* grows only by 1, only in the decay step and only for a contaminated cell
\* on which no infected agent stands; the counter of a cell that is not
\* contaminated is left alone.
C20_OccupiedCellResetsCounter ==
    /\ [][(variant = "homework" /\ pc = "decay") =>
             \A c \in Cells :
                /\ (cell_is_infected[c] /\ C7_InfectedOccupant(c)) =>
                      /\ virus_persistence'[c] = 0
                      /\ cell_is_infected'[c]
                      /\ infected_property_layer'[c]
                /\ (cell_is_infected[c] /\ ~C7_InfectedOccupant(c)) =>
                      \/ virus_persistence'[c] = virus_persistence[c] + 1
                      \/ virus_persistence'[c] = 0 /\ ~cell_is_infected'[c]
                /\ ~cell_is_infected[c] =>
                      /\ virus_persistence'[c] = virus_persistence[c]
                      /\ ~cell_is_infected'[c]]_vars
    /\ [][(variant = "homework" /\ pc # "decay") =>
             virus_persistence' = virus_persistence]_vars

\* a tick ended with an infected agent on a contaminated cell whose counter
\* is 0 and with another contaminated cell, left by its infected agent, whose
\* counter has grown
C20_Witness ==
    /\ variant = "homework"
    /\ pc = "idle"
    /\ calls # << >>
    /\ calls[Len(calls)][1] = "decay"
    /\ \E c, e \in Cells :
          /\ cell_is_infected[c] /\ C7_InfectedOccupant(c) /\ virus_persistence[c] = 0
          /\ cell_is_infected[e] /\ ~C7_InfectedOccupant(e) /\ virus_persistence[e] = 2

\* ---- the range of the persistence counter
\* C21: at the end of every executed tick, and at the end of construction, the
\* counter of every cell is 0, 1 or 2, and the counter of a cell that is not
\* contaminated is 0.
C21_CounterWithinLimit ==
    (variant = "homework" /\ pc = "idle") =>
        \A c \in Cells :
           /\ virus_persistence[c] \in 0 .. VirusPersistenceLimit
           /\ ~cell_is_infected[c] => virus_persistence[c] = 0

\* a tick ended with a contaminated cell whose counter stands at the limit
\* and with a cell that is not contaminated
C21_Witness ==
    /\ variant = "homework"
    /\ pc = "idle"
    /\ ticks > 0
    /\ calls # << >>
    /\ calls[Len(calls)][1] = "decay"
    /\ \E c, e \in Cells :
          /\ cell_is_infected[c] /\ virus_persistence[c] = VirusPersistenceLimit
          /\ ~cell_is_infected[e] /\ virus_persistence[e] = 0

\* ---- the passive-acquisition probability
\* C22: the probability that get_infected_from_cell compares its draw with is
\* the sum of 0.25 for an agent with comorbidities (else 0) and of 0.5 on a
\* contaminated cell or 0.25 next to one only; it is 0 away from every
\* contaminated cell; the largest sum is 0.75 and no sum exceeds 1.0.
C22_SumNeverExceedsOne ==
    variant = "homework" =>
        \A a \in PersonAgents :
           cell[a] # None =>
              LET trait == IF has_comorbidities[a] THEN 25 ELSE 0
                  on_contaminated == cell_is_infected[cell[a]]
                  next_to_contaminated ==
                      \E c \in Neighborhood(cell[a]) : cell_is_infected[c]
                  p == hw_get_infection_probabilty(a)
              IN  /\ on_contaminated => p = trait + 50
                  /\ (~on_contaminated /\ next_to_contaminated) => p = trait + 25
                  /\ (~on_contaminated /\ ~next_to_contaminated) => p = 0
                  /\ p <= 75
                  /\ p < 100

\* C22 as stated: some reachable combination of trait and location has a sum
\* above 1.0; the sum grows with both contributions, so that combination
\* would be an agent with comorbidities on a contaminated cell.
C22_LargestSumExceedsOne ==
    variant = "homework" =>
        \A a \in PersonAgents :
           (cell[a] # None /\ has_comorbidities[a] /\ cell_is_infected[cell[a]]) =>
              hw_get_infection_probabilty(a) > 100

\* get_infected_from_cell is about to draw for an uninfected agent with
\* comorbidities that stands on a contaminated cell: the largest sum
C22_Witness ==
    /\ variant = "homework"
    /\ pc = "get_infected_from_cell"
    /\ cell[idx] # None
    /\ ~is_infected[idx]
    /\ has_comorbidities[idx]
    /\ cell_is_infected[cell[idx]]
    /\ hw_get_infection_probabilty(idx) = 75

\* ---- passive acquisition needs a contaminated cell
\* C23: a get_infected_from_cell call infects nobody but its caller, and its
\* caller only when, at the call, the caller's cell or one of its four
\* neighbouring cells is contaminated; away from every contaminated cell the
\* caller stays uninfected with or without comorbidities; an infected caller
\* takes no random draw and changes nothing.
C23_InfectedOnlyNearContamination ==
    [][(variant = "homework" /\ pc = "get_infected_from_cell" /\ cell[idx] # None) =>
          /\ \A a \in PersonAgents : a # idx => is_infected'[a] = is_infected[a]
          /\ (~is_infected[idx] /\ is_infected'[idx]) =>
                \/ cell_is_infected[cell[idx]]
                \/ \E c \in Neighborhood(cell[idx]) : cell_is_infected[c]
          /\ (/\ ~is_infected[idx]
              /\ ~cell_is_infected[cell[idx]]
              /\ \A c \in Neighborhood(cell[idx]) : ~cell_is_infected[c]) =>
                ~is_infected'[idx]
          /\ is_infected[idx] =>
                /\ drawn' = 0
                /\ is_infected' = is_infected
                /\ location_infections' = location_infections
          /\ ~is_infected[idx] => drawn' = 1
          /\ direct_infections' = direct_infections
          /\ cell_is_infected' = cell_is_infected]_vars

\* a call has just infected its caller on a cell that is not contaminated,
\* next to a contaminated one, after an infected caller took no draw
C23_Witness ==
    /\ variant = "homework"
    /\ Len(calls) >= 2
    /\ calls[Len(calls)][1] = "get_infected_from_cell"
    /\ calls[Len(calls) - 1][1] = "get_infected_from_cell"
    /\ drawn = 1
    /\ LET a == calls[Len(calls)][2]
           b == calls[Len(calls) - 1][2]
       IN  /\ is_infected[a]
           /\ ~cell_is_infected[cell[a]]
           /\ \E c \in Neighborhood(cell[a]) : cell_is_infected[c]
           /\ location_infections > 0
           /\ is_infected[b]
           /\ cell[b] # cell[a]

C25_BecomesInformed(agent, g, l) ==
    /\ trend_always_told(agent) \/ trend_gossips(g)
    /\ IF variant = "laboratory_2" THEN lab2_believes(l) ELSE lab1_believes(l)

\* an informed caller about to make its transmit call on a cell that holds
\* an uninformed sport enthusiast e and an uninformed agent n that is none
C25_SameSituation(e, n) ==
    /\ variant \in {"laboratory_2", "laboratory1"}
    /\ pc = "spread_news"
    /\ cell[idx] # None
    /\ knows_about_trend[idx]
    /\ e # idx /\ n # idx
    /\ cell[e] = cell[idx] /\ cell[n] = cell[idx]
    /\ ~knows_about_trend[e] /\ ~knows_about_trend[n]
    /\ sport_enthusiast[e] /\ ~sport_enthusiast[n]

\* C25 as stated: whatever the draws, when the sport-enthusiast target becomes
\* informed the target that is no sport enthusiast becomes informed too.
C25_NonEnthusiastAtLeastAsLikely ==
    \A e, n \in PersonAgents :
       C25_SameSituation(e, n) =>
          \A g, l \in Draws :
             C25_BecomesInformed(e, g, l) => C25_BecomesInformed(n, g, l)

\* C25, corrected: the probability is higher for the sport enthusiast.
\* Whatever the draws, when the target that is no sport enthusiast becomes
\* informed the sport-enthusiast target becomes informed too, and some draws
\* inform the sport enthusiast only; the caller makes an attempt on every
\* uninformed sport enthusiast of its cell and takes no gossip draw for it.
C25_EnthusiastMoreLikely ==
    /\ [](\A e, n \in PersonAgents :
             C25_SameSituation(e, n) =>
                /\ \A g, l \in Draws :
                      C25_BecomesInformed(n, g, l) => C25_BecomesInformed(e, g, l)
                /\ \E g, l \in Draws :
                      C25_BecomesInformed(e, g, l) /\ ~C25_BecomesInformed(n, g, l))
    /\ [][(/\ variant \in {"laboratory_2", "laboratory1"}
           /\ pc = "spread_news"
           /\ cell[idx] # None
           /\ knows_about_trend[idx]) =>
             /\ \A e \in PersonAgents :
                   (e # idx /\ cell[e] = cell[idx] /\ ~knows_about_trend[e]
                      /\ sport_enthusiast[e]) =>
                      \E i \in DOMAIN targeted' : targeted'[i] = <<pc, idx, e>>
             /\ (\A a \in PersonAgents :
                    (a # idx /\ cell[a] = cell[idx] /\ ~knows_about_trend[a]) =>
                       sport_enthusiast[a]) =>
                   drawn' = Cardinality({a \in PersonAgents :
                                a # idx /\ cell[a] = cell[idx] /\ ~knows_about_trend[a]})
          ]_vars

\* a transmit call has just informed the sport enthusiast of the caller's
\* cell and made no attempt on the agent of that cell that is none
C25_Witness ==
    /\ variant \in {"laboratory_2", "laboratory1"}
    /\ calls # << >>
    /\ calls[Len(calls)][1] = "spread_news"
    /\ LET b == calls[Len(calls)][2]
       IN  /\ knows_about_trend[b]
           /\ \E e, n \in PersonAgents :
                 /\ e # b /\ n # b
                 /\ cell[e] = cell[b] /\ cell[n] = cell[b]
                 /\ sport_enthusiast[e] /\ ~sport_enthusiast[n]
                 /\ knows_about_trend[e] /\ ~knows_about_trend[n]
                 /\ \E i \in DOMAIN targeted : targeted[i] = <<"spread_news", b, e>>
                 /\ \A i \in DOMAIN targeted : targeted[i][3] # n

\* ---- the frame of a move
\* the agent whose move the step in progress makes next
C26_Mover == IF pc = "move_around" THEN idx ELSE movers[idx]

\* n is c or one of the four cells next to c on the wrapping grid
C26_OldCellOrNeighbour(c, n) ==
    \/ n = c
    \/ /\ n[2] = c[2]
       /\ n[1] \in {(c[1] + 1) % GridWidth, (c[1] + GridWidth - 1) % GridWidth}
    \/ /\ n[1] = c[1]
       /\ n[2] \in {(c[2] + 1) % GridHeight, (c[2] + GridHeight - 1) % GridHeight}

\* C26: a move_around call changes the position of its caller only, to the
\* old cell or one of its four neighbours on the wrapping grid, and no flag,
\* trait, counter or cell property; in the disease model the caller changes
\* cell only in the branch taken when its draw is below moving_probability
\* (a second draw selects the cell) and stays put in the other; outside a
\* move no position changes; in the move phase of a tick every regular agent
\* makes the call once, in creation order, and never twice.
C26_MoveChangesOnlyThePosition ==
    /\ [][(pc \in {"move_around", "move_around_again"} /\ cell[C26_Mover] # None) =>
             /\ \A a \in PersonAgents : a # C26_Mover => cell'[a] = cell[a]
             /\ C26_OldCellOrNeighbour(cell[C26_Mover], cell'[C26_Mover])
             /\ UNCHANGED <<fixed, hw_state, knows_about_trend, counters, targeted>>
             /\ variant = "homework" =>
                   /\ drawn' \in {1, 2}
                   /\ drawn' = 1 => cell' = cell
                   /\ drawn' = 2 => cell'[C26_Mover] # cell[C26_Mover]]_vars
    /\ [][(pc \notin {"move_around", "move_around_again"}) => cell' = cell]_vars
    /\ [](\A i, j \in DOMAIN calls :
             (calls[i][1] = "move_around" /\ calls[j][1] = "move_around" /\ i # j) =>
                calls[i][2] # calls[j][2])
    /\ []((calls # << >> /\ calls[Len(calls)][1] # "move_around") =>
             \A a \in PersonAgents : calls[a] = <<"move_around", a>>)

\* the move phase of a tick of the disease model is over, every agent made
\* its one call and the last of them relocated its caller
C26_Witness ==
    /\ variant = "homework"
    /\ pc = "spread_virus"
    /\ idx = 1
    /\ \A a \in PersonAgents : calls[a] = <<"move_around", a>>
    /\ Len(calls) = Len(cell)
    /\ drawn = 2
    /\ ticks > 1

\* ---- the collected series of a stopped model
\* C27: when the disease model has stopped (running = false), the last row
\* of the data collector holds the final values of direct_infections and
\* location_infections.
C27_LastRowHoldsFinalCounters ==
    (variant = "homework" /\ ~running) =>
        model_vars[Len(model_vars)] = <<direct_infections, location_infections>>

\* ---- the property layer and the flag of the cells
\* C28: at the end of construction and of every executed tick,
\* infected_property_layer.data[x][y] is true exactly when the cell (x, y) is
\* contaminated.
C28_LayerAgreesWithFlag ==
    (variant = "homework" /\ pc = "idle") =>
        \A c \in Cells : infected_property_layer[c] = cell_is_infected[c]

\* a tick ended whose decay loop cleared a cell and left another contaminated
C28_Witness ==
    /\ variant = "homework"
    /\ pc = "idle"
    /\ calls # << >>
    /\ calls[Len(calls)][1] = "decay"
    /\ calls[Len(calls)][2] >= 1
    /\ \E c, e \in Cells :
          /\ cell_is_infected[c] /\ infected_property_layer[c]
          /\ ~cell_is_infected[e] /\ ~infected_property_layer[e]

\* ---- successes never outnumber attempts
\* a reporter returned a value between 0 and 1 and raised nothing
C29_BetweenZeroAndOne(r) ==
    /\ ~r.raises
    /\ r.ratio[2] > 0
    /\ 0 <= r.ratio[1]
    /\ r.ratio[1] <= r.ratio[2]

\* C29: in every state of laboratory_2 each success counter is at most its
\* attempt counter, and both ratio reporters return a value between 0 and 1
\* inclusive.
C29_SuccessesAtMostAttempts ==
    variant = "laboratory_2" =>
        /\ 0 <= successful_direct_interactions_count
        /\ successful_direct_interactions_count <= direct_interactions_count
        /\ 0 <= successful_indirect_interactions_count
        /\ successful_indirect_interactions_count <= indirect_interactions_count
        /\ C29_BetweenZeroAndOne(lab2_direct_interaction_success_ration)
        /\ C29_BetweenZeroAndOne(lab2_indirect_interaction_success_ration)

\* every direct attempt made so far succeeded and an influencer's delivery
\* was refused: one reporter returns 1, the other a value below 1
C29_Witness ==
    /\ variant = "laboratory_2"
    /\ direct_interactions_count >= 1
    /\ successful_direct_interactions_count = direct_interactions_count
    /\ indirect_interactions_count >= 1
    /\ successful_indirect_interactions_count < indirect_interactions_count
    /\ lab2_direct_interaction_success_ration.ratio
          = <<direct_interactions_count, direct_interactions_count>>

\* ---- the population of a trend model
\* a trend model as its constructor leaves it
C30_Constructed ==
    /\ variant \in {"laboratory_2", "laboratory1"}
    /\ ticks = 0
    /\ pc = "idle"

\* C30: a trend model constructed with population_size N >= 1 holds N + 1
\* regular agents, population_size then counting them all; exactly one of them
\* knows the trend, and it is a sport enthusiast; at least one sport
\* enthusiast does not know it; every regular agent stands on a cell of the
\* grid, and the agents placed are the regular agents only, whatever the
\* number of influencers. The agents stay on the grid in every later state.
C30_TrendPopulation ==
    /\ C30_Constructed =>
          /\ \E p \in trend_Populations :
                /\ p[1] >= 1
                /\ Len(cell) = p[1] + 1
                /\ influencer_group_size = p[2]
          /\ population_size = Len(cell)
          /\ DOMAIN knows_about_trend = DOMAIN cell
          /\ DOMAIN sport_enthusiast = DOMAIN cell
          /\ Cardinality({a \in PersonAgents : knows_about_trend[a]}) = 1
          /\ \A a \in PersonAgents : knows_about_trend[a] => sport_enthusiast[a]
          /\ \E a \in PersonAgents : ~knows_about_trend[a] /\ sport_enthusiast[a]
    /\ variant \in {"laboratory_2", "laboratory1"} =>
          /\ \A a \in PersonAgents : cell[a] \in Cells
          /\ Len(cell) = population_size

\* a trend model constructed with N = 1: the agent that knows the trend and
\* one sport enthusiast that does not, both on the grid
C30_Witness ==
    /\ C30_Constructed
    /\ Len(cell) = 2
    /\ ~knows_about_trend[1] /\ sport_enthusiast[1]
    /\ knows_about_trend[2] /\ sport_enthusiast[2]
    /\ cell[1] \in Cells /\ cell[2] \in Cells

\* ---- repeated step calls under fair draws
\* the decorated step called without end: the tick count stops at MaxTicks
\* and the data collector keeps its latest MaxTicks + 1 rows
hw_step_repeatedly ==
    /\ variant = "homework"
    /\ pc = "idle"
    /\ IF hw_all_infected
       THEN /\ running' = FALSE
            /\ UNCHANGED <<ticks, pc, idx, calls, drawn, targeted, model_vars>>
       ELSE /\ ticks' = IF ticks < MaxTicks THEN ticks + 1 ELSE ticks
            /\ model_vars' =
                  Append(IF ticks < MaxTicks THEN model_vars ELSE Tail(model_vars),
                         <<direct_infections, location_infections>>)
            /\ pc' = "move_around"
            /\ idx' = 1
            /\ calls' = << >>
            /\ drawn' = 0
            /\ targeted' = << >>
            /\ UNCHANGED running
    /\ UNCHANGED <<raised, cell, fixed, is_infected, direct_infections,
                   location_infections, cell_is_infected, virus_persistence,
                   infected_property_layer, trend_state>>

hw_Next_repeatedly ==
    \/ hw_step_repeatedly
    \/ hw_move_around
    \/ hw_spread_virus
    \/ hw_get_infected_from_cell
    \/ hw_decay

\* step is called again and again and every call it makes returns; a draw
\* outcome that is possible again and again comes out: a move to another
\* cell, a direct infection, a passive infection
hw_FairDraws ==
    /\ WF_vars(hw_Next_repeatedly)
    /\ SF_vars(hw_move_around /\ cell' # cell)
    /\ SF_vars(hw_spread_virus /\ is_infected' # is_infected)
    /\ SF_vars(hw_get_infected_from_cell /\ is_infected' # is_infected)

hw_Spec_repeatedly == hw_Init /\ [][hw_Next_repeatedly]_vars /\ hw_FairDraws

\* the disease models all of whose agents are placed: the two trait counts add
\* up to population_size at most
hw_Init_placed ==
    \E p \in {q \in hw_Populations : q[2] + q[3] <= q[1]} :
       hw_construct(p[1], p[2], p[3])

hw_Spec_placed == hw_Init_placed /\ [][hw_Next_repeatedly]_vars /\ hw_FairDraws

\* C31: in the disease model with at least one initially infected agent and
\* moving_probability > 0, repeated step calls under fair draws eventually
\* reach running = false with every agent infected.
C31_EventuallyStoppedAllInfected ==
    (variant = "homework"
        /\ (\E a \in PersonAgents : is_infected[a])
        /\ moving_probability > 0)
    => <>(~running /\ hw_all_infected)
====
